---- MODULE Spec2Model ----
(***************************************************************************)
(* ExpiryX: the expiry evaluation job, the low-stock job, their scheduler  *)
(* and the request handlers that write the same tables (create_batch,      *)
(* update_batch, acknowledge_alerts).                                      *)
(*                                                                         *)
(* Time is counted in calendar days (clock).  The store is READ COMMITTED: *)
(* a job pass reads committed rows at each of its queries, keeps its own   *)
(* inserts and row changes in its session, and publishes them at commit.   *)
(***************************************************************************)
EXTENDS Integers, Sequences, FiniteSets, TLC

\* ------------------------------------------------------------------ bounds
MaxBatches == 2
MaxAlerts == 2
MaxDay == 1
MaxDate == 3
MaxRequests == 3
MaxPasses == 2
MaxErrors == 2

\* ------------------------------------------------------- program constants
DefaultWarningDays == 5
DefaultCriticalDays == 1
LOW_STOCK_THRESHOLD == 5

VARIABLES
    clock,            \* the calendar day date.today() returns
    settings,         \* EXPIRY_WARNING_DAYS, EXPIRY_CRITICAL_DAYS
    batches,          \* table batches: sequence indexed by Batch.id
    alerts,           \* table alerts: sequence indexed by Alert.id
    job,              \* per scheduler job id: the invocation in progress / last finished
    startup_pending,  \* the one-shot job expiry_check_startup has not fired yet
    quiet,            \* an expiry pass begun today has committed, no batch changed since it began
    used              \* requests served and passes started so far, and how many the run explores

vars == <<clock, settings, batches, alerts, job, startup_pending, quiet, used>>

\* ------------------------------------------------------------ configuration
\* Settings is a BaseSettings class: both thresholds are read from the
\* environment, the defaults being 5 and 1.
DefaultSettings ==
    [EXPIRY_WARNING_DAYS |-> DefaultWarningDays, EXPIRY_CRITICAL_DAYS |-> DefaultCriticalDays]

Settings ==
    { DefaultSettings,
      [EXPIRY_WARNING_DAYS |-> 2, EXPIRY_CRITICAL_DAYS |-> 1] }

\* Environments in which EXPIRY_CRITICAL_DAYS >= EXPIRY_WARNING_DAYS: the
\* class declares two independent int fields and no validator.
MisconfiguredSettings ==
    { [EXPIRY_WARNING_DAYS |-> 1, EXPIRY_CRITICAL_DAYS |-> 2],
      [EXPIRY_WARNING_DAYS |-> 2, EXPIRY_CRITICAL_DAYS |-> 2] }

\* ------------------------------------------------------------------- scheduler
StartupJob == "expiry_check_startup"
CronJob == "expiry_check"
LowStockJob == "low_stock_check"
ExpiryJobs == {StartupJob, CronJob}

\* Optional[int] columns and fields: <<>> is None, <<n>> is n.
None == <<>>
Some(n) == <<n>>

BranchIds == {1}
TwoBranchIds == {1, 2}
\* Request bodies the handlers are driven with.  BatchCreate.initial_quantity
\* is validated gt=0; BatchUpdate takes any int and any bool, each optional.
Quantities == {5}
UpdateQuantities == {-1, 0, 6}
UpdateBodies ==
    {[current_quantity |-> Some(n), is_active |-> None] : n \in UpdateQuantities}
    \cup {[current_quantity |-> None, is_active |-> Some(b)] : b \in BOOLEAN}
    \cup {[current_quantity |-> None, is_active |-> None]}

\* A job with no invocation in progress.  The last four fields are history
\* the properties read: the batches that were active, unexpired and past
\* their date when the pass began; whether a batch changed since the pass
\* began; whether the pass began on the day of a committed expiry pass with
\* no batch changed since that pass began; and, per added alert, how many
\* alerts were committed when its dedup query ran.
IdleJob ==
    [pc |-> "idle", today |-> 0, cands |-> <<>>, idx |-> 0, added |-> <<>>,
     notifications_sent |-> 0, expired |-> {},
     due |-> {}, undisturbed |-> FALSE, rerun |-> FALSE, checked |-> <<>>]

\* A batch changed: what the running passes remember as unchanged is over.
Disturbed(j) == [job[j] EXCEPT !.undisturbed = FALSE, !.rerun = FALSE]

\* The store is empty, no request has been served and the scheduler has
\* just been started with the given thresholds; the run explores up to the
\* given numbers of requests and passes, and keeps count of the lines the
\* jobs write to the error log up to max_errors of them.
StartedWith(configured, max_requests, max_passes, max_errors) ==
    /\ clock = 0
    /\ settings = configured
    /\ batches = <<>>
    /\ alerts = <<>>
    /\ job = [j \in ExpiryJobs |-> IdleJob]
    /\ startup_pending = TRUE
    /\ quiet = FALSE
    /\ used = [requests |-> 0, passes |-> 0, errors |-> 0,
               max_requests |-> max_requests, max_passes |-> max_passes,
               max_errors |-> max_errors]

Started(configured) == StartedWith(configured, MaxRequests, MaxPasses, 0)

\* The process started with the default thresholds.
Init == Started(DefaultSettings)

\* The process started with thresholds taken from the environment.
InitConfigured == \E configured \in Settings : Started(configured)

\* The process started in an environment with critical >= warning.
InitMisconfigured == \E configured \in MisconfiguredSettings : Started(configured)

\* The process started with the default thresholds, the run exploring one
\* request less and one pass more.
InitBusy == StartedWith(DefaultSettings, MaxRequests - 1, MaxPasses + 1, 0)

\* The process started with the default thresholds, the run exploring one
\* request less and counting the error log lines.
InitFailing == StartedWith(DefaultSettings, MaxRequests - 1, MaxPasses, MaxErrors)

\* ---------------------------------------------------------------- helpers
\* The orders in which a query without ORDER BY may return the rows S.
Orderings(S) ==
    {s \in [1..Cardinality(S) -> S] : \A i, k \in 1..Cardinality(S) : s[i] = s[k] => i = k}

\* ------------------------------------------------------------ request handlers
\* Bookkeeping of a step of create_batch or update_batch: a request that
\* changes a row counts against MaxRequests, and when it changed a batch the
\* "unchanged since the last expiry pass" period is over.
AfterRequest(changed) ==
    /\ used.requests < used.max_requests
    /\ used' = IF changed THEN [used EXCEPT !.requests = @ + 1] ELSE used
    /\ quiet' = IF changed THEN FALSE ELSE quiet
    /\ job' = IF changed THEN [j \in ExpiryJobs |-> Disturbed(j)] ELSE job

\* POST /batches: BatchBase.validate_expiry_date rejects expiry_date < today,
\* Field(gt=0) rejects initial_quantity <= 0; is_active takes the column default.
NewBatch(branch, expiry_date, initial_quantity) ==
    [branch_id |-> branch,
     expiry_date |-> expiry_date,
     current_quantity |-> initial_quantity,
     is_active |-> TRUE,
     is_expired |-> expiry_date < clock]

create_batch(branch, expiry_date, initial_quantity) ==
    /\ Len(batches) < MaxBatches
    /\ expiry_date >= clock
    /\ initial_quantity > 0
    /\ batches' = Append(batches, NewBatch(branch, expiry_date, initial_quantity))
    /\ AfterRequest(TRUE)
    /\ UNCHANGED <<clock, settings, alerts, startup_pending>>

\* An update that marks the batch expired when it deactivates it.
UpdatedBatchExpiring(row, current_quantity, is_active) ==
    [row EXCEPT
        !.current_quantity = IF current_quantity # None THEN current_quantity[1] ELSE @,
        !.is_active = IF is_active # None THEN is_active[1] ELSE @,
        !.is_expired = IF is_active = Some(FALSE) THEN TRUE ELSE @]

\* An update that also clears is_expired when it reactivates the batch.
UpdatedBatchClearingExpired(row, current_quantity, is_active) ==
    [row EXCEPT
        !.current_quantity = IF current_quantity # None THEN current_quantity[1] ELSE @,
        !.is_active = IF is_active # None THEN is_active[1] ELSE @,
        !.is_expired = IF is_active = Some(TRUE) THEN FALSE ELSE @]

\* PATCH /batches/{batch_id}: BatchUpdate has two optional fields and no
\* validator; a field that is not None is stored as given.
UpdatedBatch(row, current_quantity, is_active) ==
    [row EXCEPT
        !.current_quantity = IF current_quantity # None THEN current_quantity[1] ELSE @,
        !.is_active = IF is_active # None THEN is_active[1] ELSE @]

update_batch(branch, batch_id, current_quantity, is_active) ==
    /\ batch_id \in DOMAIN batches
    /\ batches[batch_id].branch_id = branch
    /\ batches' = [batches EXCEPT ![batch_id] = UpdatedBatch(@, current_quantity, is_active)]
    /\ AfterRequest(batches' # batches)
    /\ UNCHANGED <<clock, settings, alerts, startup_pending>>

\* An acknowledgement that reopens an alert that is already acknowledged.
AcknowledgedOrReopened(a, branch, alert_ids, id) ==
    IF id \in alert_ids /\ a.branch_id = branch
    THEN IF a.status = "acknowledged"
         THEN [a EXCEPT !.status = "pending"]
         ELSE [a EXCEPT !.status = "acknowledged", !.acknowledged_by = Some(branch)]
    ELSE a

\* An acknowledgement that does not look at the branch of the alert.
AcknowledgedAnyBranch(a, branch, alert_ids, id) ==
    IF id \in alert_ids
    THEN [a EXCEPT !.status = "acknowledged", !.acknowledged_by = Some(branch),
                   !.acknowledged_at = Some(used.requests + 1)]
    ELSE a

\* POST /alerts/acknowledge: the rows with id in alert_ids and the caller's
\* branch_id get status, acknowledged_by (one user per branch) and
\* acknowledged_at = utcnow(), the instant of the request: requests are
\* served at distinct instants, numbered in the order they are served.
Acknowledged(a, branch, alert_ids, id) ==
    IF id \in alert_ids /\ a.branch_id = branch
    THEN [a EXCEPT !.status = "acknowledged", !.acknowledged_by = Some(branch),
                   !.acknowledged_at = Some(used.requests + 1)]
    ELSE a

\* len(alerts) of the response: the rows the select returned.
AcknowledgedCount(branch, alert_ids) ==
    Cardinality({id \in DOMAIN alerts : id \in alert_ids /\ alerts[id].branch_id = branch})

acknowledge_alerts(branch, alert_ids) ==
    /\ alerts' = [id \in DOMAIN alerts |-> Acknowledged(alerts[id], branch, alert_ids, id)]
    /\ used.requests < used.max_requests
    /\ used' = IF alerts' # alerts THEN [used EXCEPT !.requests = @ + 1] ELSE used
    /\ UNCHANGED <<clock, settings, batches, job, startup_pending, quiet>>

\* The calendar date advances; it may do so while a pass is running.
Tick ==
    /\ clock < MaxDay
    /\ clock' = clock + 1
    /\ quiet' = FALSE
    /\ UNCHANGED <<settings, batches, alerts, job, startup_pending, used>>

\* ------------------------------------------------------------ expiry pass
\* The candidate query without its stock filter.
IsCandidateAnyQuantity(row, today) ==
    /\ row.is_active = TRUE
    /\ row.expiry_date > today
    /\ row.expiry_date <= today + settings.EXPIRY_WARNING_DAYS

\* The candidate query taking in the batches that expire today.
IsCandidateFromToday(row, today) ==
    /\ row.is_active = TRUE
    /\ row.expiry_date >= today
    /\ row.expiry_date <= today + settings.EXPIRY_WARNING_DAYS
    /\ row.current_quantity > 0

\* WHERE clause of the candidate query.
IsCandidate(row, today) ==
    /\ row.is_active = TRUE
    /\ row.expiry_date > today
    /\ row.expiry_date <= today + settings.EXPIRY_WARNING_DAYS
    /\ row.current_quantity > 0

\* The if/else on days_remaining.
AlertLevelOf(days_remaining) ==
    IF days_remaining <= settings.EXPIRY_CRITICAL_DAYS THEN "critical" ELSE "warning"

\* The tier test with the critical boundary left out.
AlertTypeOfStrict(days_remaining) ==
    IF days_remaining < settings.EXPIRY_CRITICAL_DAYS THEN "expiry_critical" ELSE "expiry_warning"

AlertTypeOf(days_remaining) ==
    IF days_remaining <= settings.EXPIRY_CRITICAL_DAYS THEN "expiry_critical" ELSE "expiry_warning"

\* The dedup query looking at pending alerts only.
DedupMatchesPending(a, batch_id, alert_type, today) ==
    /\ a.batch_id = batch_id
    /\ a.alert_type = alert_type
    /\ a.created_at >= today
    /\ a.status = "pending"

\* The dedup query without its type filter.
DedupMatchesAnyType(a, batch_id, alert_type, today) ==
    /\ a.batch_id = batch_id
    /\ a.created_at >= today

\* The dedup query looking only at days after today.
DedupMatchesAfterToday(a, batch_id, alert_type, today) ==
    /\ a.batch_id = batch_id
    /\ a.alert_type = alert_type
    /\ a.created_at > today

\* The dedup query without its day filter.
DedupMatchesAnyDay(a, batch_id, alert_type, today) ==
    /\ a.batch_id = batch_id
    /\ a.alert_type = alert_type

\* WHERE clause of the "alert already exists for today" query.
DedupMatches(a, batch_id, alert_type, today) ==
    /\ a.batch_id = batch_id
    /\ a.alert_type = alert_type
    /\ a.created_at >= today

\* The expired-batch query with a stock filter.
IsNewlyExpiredInStock(row, today) ==
    /\ row.is_active = TRUE
    /\ row.expiry_date <= today
    /\ row.is_expired = FALSE
    /\ row.current_quantity > 0

\* WHERE clause of the expired-batch query.
IsNewlyExpired(row, today) ==
    /\ row.is_active = TRUE
    /\ row.expiry_date <= today
    /\ row.is_expired = FALSE

\* A session that sees only its own rows.
VisibleOwnSession(j) == job[j].added

\* Rows a query of the pass of job j sees: the committed ones and the ones
\* its own session has added (autoflush before each query).
Visible(j) == alerts \o job[j].added

AlertsInFlight == Len(job[StartupJob].added) + Len(job[CronJob].added)

\* created_at is server_default now(): the start of the pass's transaction,
\* which the candidate query opens right after today is read.
NewExpiryAlert(batch_id, days_remaining, today) ==
    [batch_id |-> batch_id,
     branch_id |-> batches[batch_id].branch_id,
     alert_level |-> AlertLevelOf(days_remaining),
     alert_type |-> AlertTypeOf(days_remaining),
     days_to_expiry |-> Some(days_remaining),
     status |-> "pending",
     acknowledged_by |-> None,
     acknowledged_at |-> None,
     created_at |-> today]

\* A pass that reads the calendar again wherever it needs the date.
TodayReread(j) == clock

\* The local variable today of the pass of job j, assigned once.
TodayOf(j) == job[j].today

\* today = date.today() and the candidate query.
BeginExpiry(j) ==
    /\ job[j].pc = "idle"
    /\ used.passes < used.max_passes
    /\ used' = [used EXCEPT !.passes = @ + 1]
    /\ \E order \in Orderings({b \in DOMAIN batches : IsCandidate(batches[b], clock)}) :
          job' = [job EXCEPT ![j] =
                    [IdleJob EXCEPT
                        !.pc = "loop",
                        !.today = clock,
                        !.cands = order,
                        !.idx = 1,
                        !.due = {b \in DOMAIN batches : IsNewlyExpired(batches[b], clock)},
                        !.undisturbed = TRUE,
                        !.rerun = quiet]]
    /\ UNCHANGED <<clock, settings, batches, alerts, quiet>>

\* The pass of job j ends: the job id is free again.
Ended(j) ==
    /\ job' = [k \in ExpiryJobs |->
                  IF k = j THEN IdleJob
                  ELSE IF batches' # batches THEN Disturbed(k)
                  ELSE job[k]]

\* logger.error(...) in the except branch of a job.
ErrorLogged(u) == [u EXCEPT !.errors = IF @ < u.max_errors THEN @ + 1 ELSE @]

\* An iteration in which a failing notification takes the insert with it.
AlertAddedUnlessNotifyFails(j, new_alert, sent) ==
    IF sent
    THEN [job[j] EXCEPT
            !.idx = @ + 1,
            !.added = Append(@, new_alert),
            !.checked = Append(@, Len(alerts)),
            !.notifications_sent = @ + 1]
    ELSE [job[j] EXCEPT !.idx = @ + 1]

\* db.add(new_alert) and the notification in its own try/except: the
\* gateway raising (sent = FALSE) is logged and the loop goes on.
AlertAdded(j, new_alert, sent) ==
    [job[j] EXCEPT
        !.idx = @ + 1,
        !.added = Append(@, new_alert),
        !.checked = Append(@, Len(alerts)),
        !.notifications_sent = IF sent THEN @ + 1 ELSE @]

\* One iteration of the for loop over batches_to_alert.
ExpiryLoopStep(j) ==
    /\ job[j].pc = "loop"
    /\ job[j].idx <= Len(job[j].cands)
    /\ UNCHANGED <<clock, settings, batches, alerts, startup_pending, quiet>>
    /\ LET batch_id == job[j].cands[job[j].idx]
           days_remaining == batches[batch_id].expiry_date - TodayOf(j)
           alert_type == AlertTypeOf(days_remaining)
           rows == Visible(j)
           existing == Cardinality({i \in DOMAIN rows :
                           DedupMatches(rows[i], batch_id, alert_type, TodayOf(j))})
       IN  \/ \* scalar_one_or_none() raises MultipleResultsFound: except, rollback
              /\ existing > 1
              /\ Ended(j)
              /\ used' = ErrorLogged(used)
           \/ \* continue
              /\ existing = 1
              /\ job' = [job EXCEPT ![j].idx = @ + 1]
              /\ UNCHANGED used
           \/ \* db.add(new_alert), then the notification inside its own try
              /\ existing = 0
              /\ Len(alerts) + AlertsInFlight < MaxAlerts
              /\ UNCHANGED used
              /\ \E sent \in BOOLEAN :
                    job' = [job EXCEPT ![j] =
                              AlertAdded(j, NewExpiryAlert(batch_id, days_remaining, TodayOf(j)), sent)]

\* The expired-batch query and the loop that sets the flags on its rows.
ExpiredSelect(j) ==
    /\ job[j].pc = "loop"
    /\ job[j].idx > Len(job[j].cands)
    /\ job' = [job EXCEPT
                  ![j].pc = "commit",
                  ![j].expired = {b \in DOMAIN batches : IsNewlyExpired(batches[b], TodayOf(j))}]
    /\ UNCHANGED <<clock, settings, batches, alerts, startup_pending, quiet, used>>

\* The UPDATE the flush issues for a row of expired_batches.
MarkedExpired(row) == [row EXCEPT !.is_expired = TRUE, !.is_active = FALSE]

\* await db.commit()
CommitExpiry(j) ==
    /\ job[j].pc = "commit"
    /\ alerts' = alerts \o job[j].added
    /\ batches' = [b \in DOMAIN batches |->
                      IF b \in job[j].expired THEN MarkedExpired(batches[b]) ELSE batches[b]]
    /\ Ended(j)
    /\ quiet' = (job[j].today = clock /\ job[j].undisturbed)
    /\ UNCHANGED <<clock, settings, startup_pending, used>>

\* A failing pass that is started again at once.
PassFailsAndRetries(j) ==
    /\ job[j].pc # "idle"
    /\ used.passes < used.max_passes
    /\ used' = [ErrorLogged(used) EXCEPT !.passes = @ + 1]
    /\ job' = [job EXCEPT ![j] = [@ EXCEPT !.pc = "loop", !.idx = 1, !.added = <<>>,
                                            !.checked = <<>>, !.notifications_sent = 0,
                                            !.expired = {}]]
    /\ UNCHANGED <<clock, settings, batches, alerts, startup_pending, quiet>>

\* A failing pass whose inserts stay in the store.
PassFailsKeepingInserts(j) ==
    /\ job[j].pc # "idle"
    /\ alerts' = alerts \o job[j].added
    /\ UNCHANGED <<clock, settings, batches, startup_pending, quiet, used>>
    /\ Ended(j)

\* Any statement of a pass may raise (connection lost, statement timeout):
\* the except branch logs and calls db.rollback(), which drops the session's
\* inserts and row changes.
PassFails(j) ==
    /\ job[j].pc # "idle"
    /\ used' = ErrorLogged(used)
    /\ UNCHANGED <<clock, settings, batches, alerts, startup_pending, quiet>>
    /\ Ended(j)

\* ------------------------------------------------------------ low-stock pass
\* The low-stock query with the threshold itself left out.
IsLowStockBelowThreshold(row) ==
    /\ row.is_active = TRUE
    /\ row.current_quantity > 0
    /\ row.current_quantity < LOW_STOCK_THRESHOLD

\* WHERE clause of the low-stock query.
IsLowStock(row) ==
    /\ row.is_active = TRUE
    /\ row.current_quantity > 0
    /\ row.current_quantity <= LOW_STOCK_THRESHOLD

\* The low-stock dedup query looking at acknowledged alerts.
LowStockDedupMatchesAcknowledged(a, batch_id) ==
    /\ a.batch_id = batch_id
    /\ a.alert_type = "low_stock"
    /\ a.status = "acknowledged"

\* The low-stock dedup query without its status filter.
LowStockDedupMatchesAnyStatus(a, batch_id) ==
    /\ a.batch_id = batch_id
    /\ a.alert_type = "low_stock"

\* WHERE clause of the "alert already exists" query of check_low_stock.
LowStockDedupMatches(a, batch_id) ==
    /\ a.batch_id = batch_id
    /\ a.alert_type = "low_stock"
    /\ a.status = "pending"

\* A low-stock alert raised at level warning.
NewLowStockAlertAsWarning(batch_id) ==
    [batch_id |-> batch_id,
     branch_id |-> batches[batch_id].branch_id,
     alert_level |-> "warning",
     alert_type |-> "low_stock",
     days_to_expiry |-> None,
     status |-> "pending",
     acknowledged_by |-> None,
     acknowledged_at |-> None,
     created_at |-> clock]

\* Alert(...) of check_low_stock; days_to_expiry is not passed.
NewLowStockAlert(batch_id) ==
    [batch_id |-> batch_id,
     branch_id |-> batches[batch_id].branch_id,
     alert_level |-> "info",
     alert_type |-> "low_stock",
     days_to_expiry |-> None,
     status |-> "pending",
     acknowledged_by |-> None,
     acknowledged_at |-> None,
     created_at |-> clock]

\* The for loop over low_stock_batches from row i on; added are the alerts
\* the session holds so far.  The result is those alerts, or "raised" when
\* scalar_one_or_none() met more than one row.
RECURSIVE LowStockLoop(_, _, _)
LowStockLoop(order, i, added) ==
    IF i > Len(order) THEN [raised |-> FALSE, added |-> added]
    ELSE LET rows == alerts \o added
             existing == Cardinality({k \in DOMAIN rows : LowStockDedupMatches(rows[k], order[i])})
         IN  IF existing > 1 THEN [raised |-> TRUE, added |-> added]
             ELSE IF existing = 1 THEN LowStockLoop(order, i + 1, added)
             ELSE LowStockLoop(order, i + 1, Append(added, NewLowStockAlert(order[i])))

\* A low-stock pass that also deactivates the batches it finds.
check_low_stock_deactivating ==
    /\ \E order \in Orderings({b \in DOMAIN batches : IsLowStock(batches[b])}) :
          LET run == LowStockLoop(order, 1, <<>>)
          IN  /\ Len(alerts) + AlertsInFlight + Len(run.added) <= MaxAlerts
              /\ alerts' = IF run.raised THEN alerts ELSE alerts \o run.added
    /\ batches' = [b \in DOMAIN batches |->
                      IF IsLowStock(batches[b])
                      THEN [batches[b] EXCEPT !.is_active = FALSE] ELSE batches[b]]
    /\ used.passes < used.max_passes
    /\ used' = [used EXCEPT !.passes = @ + 1]
    /\ UNCHANGED <<clock, settings, job, startup_pending, quiet>>

\* A pass of check_low_stock: the candidate query, the loop and the commit,
\* or the rollback when the loop raised.
check_low_stock ==
    /\ used.passes < used.max_passes
    /\ \E order \in Orderings({b \in DOMAIN batches : IsLowStock(batches[b])}) :
          LET run == LowStockLoop(order, 1, <<>>)
              started == [used EXCEPT !.passes = @ + 1]
          IN  /\ Len(alerts) + AlertsInFlight + Len(run.added) <= MaxAlerts
              /\ alerts' = IF run.raised THEN alerts ELSE alerts \o run.added
              /\ used' = IF run.raised THEN ErrorLogged(started) ELSE started
    /\ UNCHANGED <<clock, settings, batches, job, startup_pending, quiet>>

\* A pass of check_low_stock in which a statement raises: rollback.
check_low_stock_fails ==
    /\ used.passes < used.max_passes
    /\ used' = ErrorLogged([used EXCEPT !.passes = @ + 1])
    /\ UNCHANGED <<clock, settings, batches, alerts, job, startup_pending, quiet>>

\* ------------------------------------------------------------ scheduler
\* start_expiry_checker registers three jobs.  APScheduler runs at most one
\* instance per job id (max_instances defaults to 1); the two job ids that run
\* check_expiring_batches are independent of each other.
StartupFires ==
    /\ startup_pending
    /\ startup_pending' = FALSE
    /\ BeginExpiry(StartupJob)

ExpiryCronFires ==
    /\ BeginExpiry(CronJob)
    /\ UNCHANGED startup_pending

LowStockCronFires ==
    \/ check_low_stock
    \/ check_low_stock_fails

NoPassRunning == \A j \in ExpiryJobs : job[j].pc = "idle"

\* ------------------------------------------------------------ specifications
\* The requests of users of the given branches, and the passing of time.
RequestsOf(branches) ==
    \/ \E branch \in branches, expiry_date \in 0..MaxDate, q \in Quantities :
          create_batch(branch, expiry_date, q)
    \/ \E branch \in branches, batch_id \in 1..MaxBatches,
          u \in UpdateBodies :
          update_batch(branch, batch_id, u.current_quantity, u.is_active)
    \/ \E branch \in branches, alert_ids \in SUBSET (1..MaxAlerts) :
          acknowledge_alerts(branch, alert_ids)
    \/ Tick

Requests == RequestsOf(BranchIds)

PassSteps ==
    \/ \E j \in ExpiryJobs : ExpiryLoopStep(j)
    \/ \E j \in ExpiryJobs : ExpiredSelect(j)
    \/ \E j \in ExpiryJobs : CommitExpiry(j)
    \/ \E j \in ExpiryJobs : PassFails(j)

Next ==
    \/ Requests
    \/ PassSteps
    \/ StartupFires
    \/ ExpiryCronFires
    \/ LowStockCronFires

Spec == Init /\ [][Next]_vars

\* The same program over runs with more passes and fewer requests.
SpecBusy == InitBusy /\ [][Next]_vars

\* The same program over runs that count the error log lines.
SpecFailing == InitFailing /\ [][Next]_vars

\* The program serving two branches, over runs of a single pass.
InitBranches == StartedWith(DefaultSettings, MaxRequests, MaxPasses - 1, 0)

NextBranches ==
    \/ RequestsOf(TwoBranchIds)
    \/ PassSteps
    \/ StartupFires
    \/ ExpiryCronFires
    \/ LowStockCronFires

SpecBranches == InitBranches /\ [][NextBranches]_vars

\* The program when no trigger fires while an expiry pass is in progress,
\* under any of the configured thresholds.
NextSeq ==
    \/ Requests
    \/ PassSteps
    \/ NoPassRunning /\ StartupFires
    \/ NoPassRunning /\ ExpiryCronFires
    \/ NoPassRunning /\ LowStockCronFires

SpecSeq == InitConfigured /\ [][NextSeq]_vars

\* The same, started in an environment with critical >= warning.
SpecMisconfigured == InitMisconfigured /\ [][NextSeq]_vars

TypeOK ==
    /\ clock \in 0..MaxDay
    /\ Len(batches) <= MaxBatches
    /\ Len(alerts) <= MaxAlerts
    /\ used.requests <= used.max_requests
    /\ used.passes <= used.max_passes
    /\ used.errors <= used.max_errors

\* ------------------------------------------------------------ properties
Running(j) == job[j].pc # "idle"

\* The candidates the loop of the pass of job j has gone through.
Processed(j) == {job[j].cands[i] : i \in 1..(job[j].idx - 1)}

ExpiryTypes == {"expiry_critical", "expiry_warning"}

\* C1: every batch with is_expired = true has is_active = false.
C1_ExpiredImpliesInactive ==
    \A b \in DOMAIN batches : batches[b].is_expired => ~batches[b].is_active

\* C2: when passes do not overlap, no two pending alerts of the same
\* (batch_id, alert_type) were created on the same calendar day.
C2_OnePendingPerBatchTypeDay ==
    \A i, k \in DOMAIN alerts :
        ( /\ i # k
          /\ alerts[i].batch_id = alerts[k].batch_id
          /\ alerts[i].alert_type = alerts[k].alert_type
          /\ alerts[i].created_at = alerts[k].created_at
          /\ alerts[i].status = "pending" )
        => alerts[k].status # "pending"

\* A pass has gone through a candidate without adding anything, a pending
\* alert of today being committed for that batch.
C2_Witness ==
    \E j \in ExpiryJobs :
        /\ Running(j)
        /\ job[j].added = <<>>
        /\ \E b \in Processed(j) : \E i \in DOMAIN alerts :
              /\ alerts[i].batch_id = b
              /\ alerts[i].alert_type \in ExpiryTypes
              /\ alerts[i].created_at = job[j].today
              /\ alerts[i].status = "pending"

\* C3: an expiry pass that began on the day of a committed expiry pass, no
\* batch having changed since that pass began, adds no alert and sends no
\* notification, and for every candidate it went through the store holds
\* exactly one alert of today for that batch and its tier's alert type.
C3_SecondPassAddsNothing ==
    \A j \in ExpiryJobs :
        job[j].rerun =>
            /\ job[j].added = <<>>
            /\ job[j].notifications_sent = 0
            /\ \A b \in Processed(j) :
                  Cardinality({i \in DOMAIN alerts :
                      /\ alerts[i].batch_id = b
                      /\ alerts[i].alert_type \in ExpiryTypes
                      /\ alerts[i].created_at = job[j].today}) = 1

\* Such a second pass has finished its loop over at least one candidate.
C3_Witness ==
    \E j \in ExpiryJobs :
        /\ job[j].rerun
        /\ job[j].pc = "commit"
        /\ job[j].cands # <<>>

\* C4: the startup invocation and a cron invocation of
\* check_expiring_batches are never in progress at the same time.
C4_NoOverlap == ~(Running(StartupJob) /\ Running(CronJob))

\* a is an alert of the batch and type of the alert n, created on or after
\* the day of the pass that holds n.
Duplicates(a, n, today) ==
    /\ a.batch_id = n.batch_id
    /\ a.alert_type = n.alert_type
    /\ a.created_at >= today

\* C5: the dedup query and the insert are separate steps: whenever a pass
\* holds an insert that duplicates a committed alert, that alert was
\* committed after the pass ran its dedup query for it (by the other
\* invocation, between the query and the commit).
C5_DuplicateCommittedAfterCheck ==
    \A j \in ExpiryJobs : \A k \in DOMAIN job[j].added : \A i \in DOMAIN alerts :
        Duplicates(alerts[i], job[j].added[k], job[j].today) => i > job[j].checked[k]

\* Two alerts of the same (batch, type) created on the same day are committed.
C5_Witness ==
    \E i, k \in DOMAIN alerts :
        /\ i # k
        /\ alerts[i].batch_id = alerts[k].batch_id
        /\ alerts[i].alert_type = alerts[k].alert_type
        /\ alerts[i].alert_type \in ExpiryTypes
        /\ alerts[i].created_at = alerts[k].created_at

\* Every expiry alert, committed or held by a running pass.
ExpiryAlerts ==
    {a \in {alerts[i] : i \in DOMAIN alerts}
            \cup UNION {{job[j].added[k] : k \in DOMAIN job[j].added} : j \in ExpiryJobs} :
        a.alert_type \in ExpiryTypes}

\* C6: with EXPIRY_CRITICAL_DAYS < EXPIRY_WARNING_DAYS an expiry alert is
\* an expiry_critical alert of level critical exactly when
\* 0 < days_remaining <= EXPIRY_CRITICAL_DAYS, and an expiry_warning alert
\* of level warning exactly when
\* EXPIRY_CRITICAL_DAYS < days_remaining <= EXPIRY_WARNING_DAYS, where
\* days_remaining = expiry_date - the day of the pass; no expiry alert has
\* days_remaining > EXPIRY_WARNING_DAYS.
C6_TierMatchesDaysRemaining ==
    settings.EXPIRY_CRITICAL_DAYS < settings.EXPIRY_WARNING_DAYS =>
        \A a \in ExpiryAlerts :
            LET days_remaining == batches[a.batch_id].expiry_date - a.created_at IN
            /\ a.days_to_expiry = Some(days_remaining)
            /\ days_remaining <= settings.EXPIRY_WARNING_DAYS
            /\ (a.alert_type = "expiry_critical" /\ a.alert_level = "critical")
                  <=> (0 < days_remaining /\ days_remaining <= settings.EXPIRY_CRITICAL_DAYS)
            /\ (a.alert_type = "expiry_warning" /\ a.alert_level = "warning")
                  <=> ( /\ settings.EXPIRY_CRITICAL_DAYS < days_remaining
                        /\ days_remaining <= settings.EXPIRY_WARNING_DAYS )

\* A critical and a warning alert are committed.
C6_Witness ==
    /\ \E i \in DOMAIN alerts : alerts[i].alert_type = "expiry_critical"
    /\ \E i \in DOMAIN alerts : alerts[i].alert_type = "expiry_warning"

\* The step on which the pass of job j reads its candidates, and what it
\* reads of them.
C7_ReadsOnlyCandidates(j) ==
    (job[j].pc = "idle" /\ job'[j].pc = "loop") =>
        \A i \in DOMAIN job'[j].cands :
            LET row == batches[job'[j].cands[i]]
                today == job'[j].today IN
            /\ row.is_active
            /\ row.current_quantity > 0
            /\ today < row.expiry_date
            /\ row.expiry_date <= today + settings.EXPIRY_WARNING_DAYS

\* C7: an expiry pass adds an expiry alert only for a batch it read as
\* active, with current_quantity > 0 and today < expiry_date <= today +
\* EXPIRY_WARNING_DAYS; a batch read with quantity 0, inactive, or with
\* expiry_date <= today gets none from that pass.
C7_AlertOnlyForCandidate ==
    /\ [][\A j \in ExpiryJobs : C7_ReadsOnlyCandidates(j)]_vars
    /\ [](\A j \in ExpiryJobs : \A k \in DOMAIN job[j].added :
              job[j].added[k].batch_id \in Processed(j))

\* A pass has finished its loop and left out an active batch inside the
\* warning window whose quantity was 0 when the pass read the batches.
C7_Witness ==
    \E j \in ExpiryJobs :
        /\ job[j].pc = "commit"
        /\ job[j].undisturbed
        /\ job[j].added # <<>>
        /\ \E b \in DOMAIN batches :
              /\ b \notin Processed(j)
              /\ batches[b].is_active
              /\ batches[b].current_quantity = 0
              /\ job[j].today < batches[b].expiry_date
              /\ batches[b].expiry_date <= job[j].today + settings.EXPIRY_WARNING_DAYS

\* C8: when the passes do not overlap and a pass goes through a candidate
\* that has an alert of its tier's type from an earlier day, the pass sees
\* an alert of that (batch, type) created today as well: the earlier day's
\* alert does not suppress today's.
C8_EarlierDayDoesNotSuppress ==
    \A j \in ExpiryJobs : \A b \in Processed(j) :
        LET type == AlertTypeOf(batches[b].expiry_date - job[j].today)
            OfDay(a, earlier) ==
                /\ a.batch_id = b
                /\ a.alert_type = type
                /\ IF earlier THEN a.created_at < job[j].today
                              ELSE a.created_at = job[j].today IN
        (\E i \in DOMAIN alerts : OfDay(alerts[i], TRUE))
            => \E i \in DOMAIN Visible(j) : OfDay(Visible(j)[i], FALSE)

\* Two alerts of one (batch, type) are committed, created on consecutive days.
C8_Witness ==
    \E i, k \in DOMAIN alerts :
        /\ alerts[i].batch_id = alerts[k].batch_id
        /\ alerts[i].alert_type = alerts[k].alert_type
        /\ alerts[i].alert_type \in ExpiryTypes
        /\ alerts[k].created_at = alerts[i].created_at + 1

\* The batches flagged right after the commit of the pass of job j.
FlaggedAfterCommit(j, ids) ==
    CommitExpiry(j) =>
        \A b \in ids : batches'[b].is_expired /\ ~batches'[b].is_active

C10_AllPastDateExpiredAfterPass ==
    [][\A j \in ExpiryJobs :
          (CommitExpiry(j) /\ job[j].undisturbed) =>
              \A b \in DOMAIN batches' :
                  batches'[b].expiry_date <= job[j].today =>
                      batches'[b].is_expired /\ ~batches'[b].is_active]_vars

\* C11: the expired transition happens at most once per batch: a pass
\* never writes the flags of a batch that already has is_expired = true,
\* and a pass that began right after a committed pass of the same day, no
\* batch having changed, selects no batch for the transition.
C11_ExpiredWrittenOnce ==
    [][\A j \in ExpiryJobs :
          /\ CommitExpiry(j) => \A b \in job[j].expired : ~batches[b].is_expired
          /\ (ExpiredSelect(j) /\ job[j].rerun) => job'[j].expired = {}]_vars

\* C12: once a batch has is_expired = true it has is_expired = true in
\* every later state: no step of any operation sets it back to false.
C12_ExpiredNeverCleared ==
    [][\A b \in DOMAIN batches :
          batches[b].is_expired => (b \in DOMAIN batches' /\ batches'[b].is_expired)]_vars

\* update_batch has reactivated a batch the job had expired.
C12_Witness ==
    \E b \in DOMAIN batches :
        /\ batches[b].is_expired
        /\ batches[b].is_active
        /\ batches[b].expiry_date <= clock

\* C13: every batch has current_quantity >= 0.
C13_QuantityNonNegative ==
    \A b \in DOMAIN batches : batches[b].current_quantity >= 0

\* The pass of job j ends on this step without committing: a statement
\* raised and the except branch rolled the session back.
RolledBack(j) == Running(j) /\ job'[j].pc = "idle" /\ ~CommitExpiry(j)

\* C14: a pass is all-or-nothing in the store: no step of a pass other than
\* its commit changes the alerts or the batches, and when the pass ends
\* without committing, the alerts and all batch flags are what they were.
C14_FailedPassLeavesStore ==
    [][\A j \in ExpiryJobs :
          /\ RolledBack(j) => (alerts' = alerts /\ batches' = batches)
          /\ (ExpiryLoopStep(j) \/ ExpiredSelect(j)) =>
                (alerts' = alerts /\ batches' = batches)]_vars

\* A pass holds an insert and a batch transition and has not committed yet.
C14_Witness ==
    \E j \in ExpiryJobs :
        /\ job[j].pc = "commit"
        /\ job[j].added # <<>>
        /\ job[j].expired # {}

\* C15: whatever the alert phase does for a candidate (alert created,
\* candidate skipped because one or more alerts of its (batch, type) exist
\* today, notification failed), the pass goes on to the expired-batch
\* transition: no iteration of the alert loop ends the pass.
C15_AlertPhaseNeverEndsPass ==
    [][\A j \in ExpiryJobs : ExpiryLoopStep(j) => job'[j].pc = "loop"]_vars

\* C16: a failing notification neither drops the alert of its candidate nor
\* stops the loop: every candidate a pass has gone through has an alert of
\* its batch and an expiry type, created today or later, that the pass sees
\* (its own insert or a committed one), and the commit of the pass stores
\* every insert the pass holds, whether or not its notification was sent.
C16_NotifyFailureKeepsAlerts ==
    /\ [](\A j \in ExpiryJobs : \A b \in Processed(j) :
              \E i \in DOMAIN Visible(j) :
                  /\ Visible(j)[i].batch_id = b
                  /\ Visible(j)[i].alert_type \in ExpiryTypes
                  /\ Visible(j)[i].created_at >= job[j].today)
    /\ [][\A j \in ExpiryJobs :
              CommitExpiry(j) =>
                  \A k \in DOMAIN job[j].added :
                      alerts'[Len(alerts) + k] = job[j].added[k]]_vars

\* A pass has gone through two candidates and holds an insert for each,
\* the notification having failed for both.
C16_Witness ==
    \E j \in ExpiryJobs :
        /\ job[j].pc = "commit"
        /\ Len(job[j].added) = 2
        /\ job[j].notifications_sent = 0

\* C17: no notification is requested for an alert that never becomes
\* committed: a pass that ends rolled back has requested none, i.e. holds
\* no insert (each insert is followed at once by its notification request).
C17_NoNotificationForLostAlert ==
    [][\A j \in ExpiryJobs : RolledBack(j) => job[j].added = <<>>]_vars

\* The low_stock alerts of batch b with the given status.
LowStockAlertsOf(b, status) ==
    {i \in DOMAIN alerts :
        /\ alerts[i].batch_id = b
        /\ alerts[i].alert_type = "low_stock"
        /\ alerts[i].status = status}

\* C18: a pass of check_low_stock adds a low_stock alert (level info,
\* pending) for exactly the batches that are active, have
\* 0 < current_quantity <= 5 and have no pending low_stock alert, one each.
C18_LowStockExactly ==
    [][check_low_stock =>
          LET created == (Len(alerts) + 1)..Len(alerts')
              wanted == {b \in DOMAIN batches :
                            /\ batches[b].is_active
                            /\ 0 < batches[b].current_quantity
                            /\ batches[b].current_quantity <= 5
                            /\ LowStockAlertsOf(b, "pending") = {}}
          IN  /\ {alerts'[i].batch_id : i \in created} = wanted
              /\ Cardinality(created) = Cardinality(wanted)
              /\ \A i \in created :
                    /\ alerts'[i].alert_type = "low_stock"
                    /\ alerts'[i].alert_level = "info"
                    /\ alerts'[i].status = "pending"]_vars

\* A batch of quantity 5 has its low_stock alert while an active batch of
\* quantity 0 or 6 has none.
C18_Witness ==
    \E b, c \in DOMAIN batches :
        /\ batches[b].current_quantity = 5
        /\ LowStockAlertsOf(b, "pending") # {}
        /\ batches[c].is_active
        /\ batches[c].current_quantity \in {0, 6}
        /\ LowStockAlertsOf(c, "pending") = {}
        /\ LowStockAlertsOf(c, "acknowledged") = {}

\* C19: low-stock dedup follows the status, not the day: a batch never has
\* two pending low_stock alerts, whatever their days, and a pass of
\* check_low_stock over an active batch with 0 < current_quantity <= 5
\* whose low_stock alerts are all acknowledged adds a new pending one,
\* created now.
C19_LowStockDedupByStatus ==
    /\ [](\A b \in DOMAIN batches : Cardinality(LowStockAlertsOf(b, "pending")) <= 1)
    /\ [][check_low_stock =>
            \A b \in DOMAIN batches :
                ( /\ batches[b].is_active
                  /\ 0 < batches[b].current_quantity
                  /\ batches[b].current_quantity <= 5
                  /\ LowStockAlertsOf(b, "acknowledged") # {}
                  /\ LowStockAlertsOf(b, "pending") = {} )
                => \E i \in (Len(alerts) + 1)..Len(alerts') :
                      /\ alerts'[i].batch_id = b
                      /\ alerts'[i].alert_type = "low_stock"
                      /\ alerts'[i].status = "pending"
                      /\ alerts'[i].created_at = clock]_vars

\* A batch has an acknowledged low_stock alert and a pending one created
\* on the same day.
C19_Witness ==
    \E b \in DOMAIN batches :
        \E i \in LowStockAlertsOf(b, "acknowledged") : \E k \in LowStockAlertsOf(b, "pending") :
            alerts[i].created_at = alerts[k].created_at

\* C20: with EXPIRY_CRITICAL_DAYS >= EXPIRY_WARNING_DAYS the configuration
\* is rejected at startup, so no expiry alert is ever created.
C20_MisconfigurationRejected ==
    settings.EXPIRY_CRITICAL_DAYS >= settings.EXPIRY_WARNING_DAYS =>
        \A i \in DOMAIN alerts : alerts[i].alert_type \notin ExpiryTypes

\* Some pass of check_expiring_batches commits on this step.
SomeCommit == \E j \in ExpiryJobs : CommitExpiry(j)

\* The flags named by fields are the same before and after the step, for
\* every batch that exists before it.
FlagsKept(fields) ==
    \A b \in DOMAIN batches : \A f \in fields : batches'[b][f] = batches[b][f]

C22_LowStockOnlyInserts ==
    [][(check_low_stock \/ check_low_stock_fails) =>
          /\ batches' = batches
          /\ Len(alerts') >= Len(alerts)
          /\ \A i \in DOMAIN alerts : alerts'[i] = alerts[i]
          /\ \A i \in (Len(alerts) + 1)..Len(alerts') :
                alerts'[i].alert_type = "low_stock" /\ alerts'[i].status = "pending"]_vars

\* A low_stock alert was inserted after another alert.
C22_Witness ==
    /\ Len(alerts) = 2
    /\ alerts[2].alert_type = "low_stock"

\* C23: alerts are never deleted, every inserted alert is pending, an
\* existing alert changes only on a step that is no job's (no pass starts,
\* runs or ends) and then only to status acknowledged, and an alert that
\* is not pending never becomes pending again.
C23_AlertLifecycle ==
    [][/\ Len(alerts') >= Len(alerts)
       /\ \A i \in (Len(alerts) + 1)..Len(alerts') : alerts'[i].status = "pending"
       /\ \A i \in DOMAIN alerts :
             /\ alerts'[i] # alerts[i] =>
                   /\ job' = job
                   /\ used'.passes = used.passes
                   /\ Len(alerts') = Len(alerts)
                   /\ alerts'[i].status = "acknowledged"
             /\ alerts[i].status # "pending" => alerts'[i].status # "pending"]_vars

\* An alert has been acknowledged and a job has inserted another one.
C23_Witness ==
    /\ Len(alerts) = 2
    /\ alerts[1].status = "acknowledged"
    /\ alerts[2].status = "pending"

\* C24: a pass that fails is rolled back and is not started again by the
\* failure (the job id is idle, no pass is counted, the store and the
\* pending startup run are as before), and after a failure the scheduler
\* still starts the jobs: the cron trigger of check_expiring_batches can
\* fire whenever its job id is idle, and that of check_low_stock always.
C24_FailedPassWaitsForTrigger ==
    /\ [][\A j \in ExpiryJobs :
              (PassFails(j) \/ RolledBack(j)) =>
                  /\ job'[j] = IdleJob
                  /\ used'.passes = used.passes
                  /\ startup_pending' = startup_pending
                  /\ alerts' = alerts
                  /\ batches' = batches]_vars
    /\ [][check_low_stock_fails =>
              /\ used'.passes = used.passes + 1
              /\ job' = job
              /\ alerts' = alerts
              /\ batches' = batches]_vars
    /\ [](used.errors > 0 /\ used.passes < used.max_passes =>
              /\ job[CronJob].pc = "idle" => ENABLED ExpiryCronFires
              /\ ENABLED LowStockCronFires)

\* After a failed pass, a pass started by the cron trigger has done its
\* work and is about to commit.
C24_Witness ==
    /\ used.errors > 0
    /\ startup_pending
    /\ job[CronJob].pc = "commit"
    /\ job[CronJob].added # <<>>

\* C25: a pass works with the one date it read when it began, also after
\* the calendar has moved on: the candidates are the batches in the window
\* of that date; an insert carries the days from that date to the expiry
\* date and the tier of that number, and is made only when no visible
\* alert of the batch and type was created on or after that date; a
\* candidate is skipped only when one was; the batches selected as expired
\* are those past that date; and no step of the pass changes the date.
C25_OneTodayPerPass ==
    [][\A j \in ExpiryJobs :
          /\ BeginExpiry(j) =>
                /\ job'[j].today = clock
                /\ \A b \in DOMAIN batches :
                      (\E i \in DOMAIN job'[j].cands : job'[j].cands[i] = b)
                          <=> IsCandidate(batches[b], job'[j].today)
          /\ (Running(j) /\ Running(j)') => job'[j].today = job[j].today
          /\ ExpiryLoopStep(j) /\ Running(j)' =>
                LET b == job[j].cands[job[j].idx]
                    days == batches[b].expiry_date - job[j].today
                    seen == {i \in DOMAIN Visible(j) :
                                /\ Visible(j)[i].batch_id = b
                                /\ Visible(j)[i].alert_type = AlertTypeOf(days)
                                /\ Visible(j)[i].created_at >= job[j].today}
                IN  IF Len(job'[j].added) > Len(job[j].added)
                    THEN /\ seen = {}
                         /\ job'[j].added[Len(job'[j].added)].days_to_expiry = Some(days)
                         /\ job'[j].added[Len(job'[j].added)].alert_type = AlertTypeOf(days)
                    ELSE seen # {}
          /\ ExpiredSelect(j) =>
                job'[j].expired =
                    {b \in DOMAIN batches : IsNewlyExpired(batches[b], job[j].today)}]_vars

\* The calendar moved on while a pass was running: the pass holds an alert
\* for a batch that expires on the new date, counted from the date the pass
\* began, and has not selected that batch as expired.
C25_Witness ==
    \E j \in ExpiryJobs : \E k \in DOMAIN job[j].added :
        LET b == job[j].added[k].batch_id
        IN  /\ job[j].pc = "commit"
            /\ job[j].today < clock
            /\ batches[b].expiry_date = clock
            /\ batches[b].is_active
            /\ job[j].added[k].days_to_expiry = Some(clock - job[j].today)
            /\ b \notin job[j].expired

\* The alerts in the store and those held by the running passes.
AllAlerts ==
    {alerts[i] : i \in DOMAIN alerts}
    \cup UNION {{job[j].added[k] : k \in DOMAIN job[j].added} : j \in ExpiryJobs}

\* C26: every alert has a type in {expiry_warning, expiry_critical,
\* low_stock} and the level of its type (critical, warning, info in that
\* order of the types expiry_critical, expiry_warning, low_stock), and
\* every alert is pending when it is created: while a pass holds it and on
\* the step that stores it.
C26_TypeDeterminesLevel ==
    /\ [](\A a \in AllAlerts :
              \/ a.alert_type = "expiry_critical" /\ a.alert_level = "critical"
              \/ a.alert_type = "expiry_warning" /\ a.alert_level = "warning"
              \/ a.alert_type = "low_stock" /\ a.alert_level = "info")
    /\ [](\A j \in ExpiryJobs : \A k \in DOMAIN job[j].added :
              job[j].added[k].status = "pending")
    /\ [][\A i \in (Len(alerts) + 1)..Len(alerts') : alerts'[i].status = "pending"]_vars

\* The store holds an expiry alert and a low_stock alert.
C26_Witness ==
    /\ \E i \in DOMAIN alerts : alerts[i].alert_type = "low_stock"
    /\ \E i \in DOMAIN alerts : alerts[i].alert_type \in ExpiryTypes

\* C27: every expiry alert stores in days_to_expiry the days from the date
\* of its creating pass (its created_at) to the expiry date of its batch,
\* at least 1 and at most EXPIRY_WARNING_DAYS, at most EXPIRY_CRITICAL_DAYS
\* for an expiry_critical alert and more than that for an expiry_warning
\* alert; a low_stock alert stores none.
C27_DaysToExpiryStored ==
    \A a \in AllAlerts :
        IF a.alert_type \in ExpiryTypes
        THEN /\ a.days_to_expiry # None
             /\ a.days_to_expiry[1] = batches[a.batch_id].expiry_date - a.created_at
             /\ 1 <= a.days_to_expiry[1]
             /\ a.days_to_expiry[1] <= settings.EXPIRY_WARNING_DAYS
             /\ a.alert_type = "expiry_critical" =>
                    a.days_to_expiry[1] <= settings.EXPIRY_CRITICAL_DAYS
             /\ a.alert_type = "expiry_warning" =>
                    a.days_to_expiry[1] > settings.EXPIRY_CRITICAL_DAYS
        ELSE a.days_to_expiry = None

\* The store holds an expiry_warning alert at the far end of the window
\* and a low_stock alert.
C27_Witness ==
    /\ \E i \in DOMAIN alerts :
          /\ alerts[i].alert_type = "expiry_warning"
          /\ alerts[i].days_to_expiry = Some(settings.EXPIRY_WARNING_DAYS)
    /\ \E i \in DOMAIN alerts :
          /\ alerts[i].alert_type = "low_stock"
          /\ alerts[i].days_to_expiry = None

\* C28: dedup is per alert type.  An iteration of the expiry loop inserts
\* the alert of its candidate's tier whenever the pass sees no alert of that
\* batch and that type created today or later, whatever alerts of other
\* types or earlier days the batch has; so every candidate gone through has
\* an alert of exactly its tier's type from today on.  A pass of
\* check_low_stock that meets no batch with two pending low_stock alerts
\* leaves every low-stock batch with a pending low_stock alert, whatever
\* expiry alerts the batch has.
C28_DedupPerType ==
    /\ [][\A j \in ExpiryJobs :
              ExpiryLoopStep(j) =>
                  LET b == job[j].cands[job[j].idx]
                      type == AlertTypeOf(batches[b].expiry_date - job[j].today)
                      same == {i \in DOMAIN Visible(j) :
                                  /\ Visible(j)[i].batch_id = b
                                  /\ Visible(j)[i].alert_type = type
                                  /\ Visible(j)[i].created_at >= job[j].today}
                  IN  same = {} =>
                          /\ Len(job'[j].added) = Len(job[j].added) + 1
                          /\ job'[j].added[Len(job'[j].added)].batch_id = b
                          /\ job'[j].added[Len(job'[j].added)].alert_type = type]_vars
    /\ [](\A j \in ExpiryJobs : \A b \in Processed(j) :
              \E i \in DOMAIN Visible(j) :
                  /\ Visible(j)[i].batch_id = b
                  /\ Visible(j)[i].alert_type =
                        AlertTypeOf(batches[b].expiry_date - job[j].today)
                  /\ Visible(j)[i].created_at >= job[j].today)
    /\ [][check_low_stock =>
              \A b \in DOMAIN batches :
                  (/\ IsLowStock(batches[b])
                   /\ \A c \in DOMAIN batches :
                         Cardinality({i \in DOMAIN alerts :
                             /\ alerts[i].batch_id = c
                             /\ alerts[i].alert_type = "low_stock"
                             /\ alerts[i].status = "pending"}) <= 1) =>
                      \E i \in DOMAIN alerts' :
                          /\ alerts'[i].batch_id = b
                          /\ alerts'[i].alert_type = "low_stock"
                          /\ alerts'[i].status = "pending"]_vars

\* A batch got its low_stock alert first and its expiry alert afterwards,
\* on the same day.
C28_Witness ==
    /\ Len(alerts) = 2
    /\ alerts[1].alert_type = "low_stock"
    /\ alerts[2].alert_type \in ExpiryTypes
    /\ alerts[2].batch_id = alerts[1].batch_id
    /\ alerts[2].created_at = alerts[1].created_at

\* The committed alerts of batch b and the given type created on or after
\* today that have been acknowledged.
AcknowledgedToday(b, type, today) ==
    {i \in DOMAIN alerts :
        /\ alerts[i].batch_id = b
        /\ alerts[i].alert_type = type
        /\ alerts[i].created_at >= today
        /\ alerts[i].status = "acknowledged"}

\* C29: the expiry dedup ignores the status.  An iteration of the expiry
\* loop whose candidate has an acknowledged alert of its tier's type
\* created today adds no alert and requests no notification.
C29_AcknowledgedStillSuppresses ==
    [][\A j \in ExpiryJobs :
          ExpiryLoopStep(j) =>
              LET b == job[j].cands[job[j].idx]
                  type == AlertTypeOf(batches[b].expiry_date - job[j].today)
              IN  AcknowledgedToday(b, type, job[j].today) # {} =>
                      /\ Len(job'[j].added) <= Len(job[j].added)
                      /\ job'[j].notifications_sent <= job[j].notifications_sent]_vars

\* A pass has gone through a candidate whose alert of today is
\* acknowledged, and holds no insert.
C29_Witness ==
    \E j \in ExpiryJobs : \E b \in Processed(j) :
        /\ Running(j)
        /\ job[j].added = <<>>
        /\ job[j].notifications_sent = 0
        /\ AcknowledgedToday(b, AlertTypeOf(batches[b].expiry_date - job[j].today),
                             job[j].today) # {}
        /\ \A i \in DOMAIN alerts : alerts[i].status = "acknowledged"

\* C30: a step of acknowledge_alerts for a caller of some branch and a
\* list of ids leaves every alert that is not listed or belongs to another
\* branch as it was, gives every listed alert of the caller's branch status
\* acknowledged, the caller and the instant of the request, changes nothing
\* else of it, and reports the number of alerts the step changed.
C30_AcknowledgeOwnListedOnly ==
    [][\A branch \in TwoBranchIds : \A alert_ids \in SUBSET (1..MaxAlerts) :
          acknowledge_alerts(branch, alert_ids) =>
              /\ Len(alerts') = Len(alerts)
              /\ \A id \in DOMAIN alerts :
                    IF id \in alert_ids /\ alerts[id].branch_id = branch
                    THEN /\ alerts'[id].status = "acknowledged"
                         /\ alerts'[id].acknowledged_by = Some(branch)
                         /\ alerts'[id].acknowledged_at # None
                         /\ alerts'[id].acknowledged_at # alerts[id].acknowledged_at
                         /\ alerts'[id] = [alerts[id] EXCEPT
                                !.status = alerts'[id].status,
                                !.acknowledged_by = alerts'[id].acknowledged_by,
                                !.acknowledged_at = alerts'[id].acknowledged_at]
                    ELSE alerts'[id] = alerts[id]
              /\ AcknowledgedCount(branch, alert_ids) =
                    Cardinality({id \in DOMAIN alerts : alerts'[id] # alerts[id]})
              /\ batches' = batches]_vars

\* Two branches have an alert each; one of them is acknowledged, by its
\* own branch, and the other is pending.
C30_Witness ==
    /\ Len(alerts) = 2
    /\ alerts[1].branch_id # alerts[2].branch_id
    /\ \E i, k \in DOMAIN alerts :
          /\ alerts[i].status = "acknowledged"
          /\ alerts[i].acknowledged_by = Some(alerts[i].branch_id)
          /\ alerts[i].acknowledged_at # None
          /\ alerts[k].status = "pending"
          /\ alerts[k].acknowledged_at = None

====
